---- MODULE Spec2Model ----
(***************************************************************************)
(* The Murmel stack of src/src/constructor.rs: Constructor::new wires the  *)
(* bounded channel, the P2P connection manager, the Dispatcher and its two *)
(* Listeners; Constructor::run dials the startup peers and starts the      *)
(* KeepConnected future on a 10 second Interval.                           *)
(*                                                                         *)
(* P2P, Dispatcher, Timeout, HeaderDownload and Ping are other modules of  *)
(* the crate; they are modelled from their documented contracts.           *)
(***************************************************************************)
EXTENDS Integers, Sequences, FiniteSets, TLC

\* ------------------------------------------------------------------ bounds
NumAddr == 2
MaxMin == 2
MaxStartup == 1
MaxPeers == 3
MaxTicks == 2
MaxSent == 11
MaxTime == 2
MaxArms == 3
MaxDur == 2
MaxSessions == 2
MaxRead == 2
MaxListen == 2

\* const BACK_PRESSURE: usize = 10
BACK_PRESSURE == 10

\* SocketAddr values
Addr == 1..NumAddr

\* rng.next_u32() as usize: enough values to reach every index of eligible
Rnd == 0..(NumAddr - 1)

VARIABLES
    phase,           \* "constructed" after Constructor::new, "running" after run
    keep_connected,  \* the KeepConnected value owned by the for_each closure
    polled,          \* the KeepConnected future the last tick polled to Ready
    ticks,           \* Interval ticks so far
    table,           \* P2P's Connection Table: peer id -> session
    closed,          \* sessions torn down to Disconnected (entry removed)
    prompt,          \* no tick has yet found a session pending or removed
    listeners,       \* the Dispatcher's Listeners, in registration order
    chan,            \* the sync_channel from the peer sessions to the Dispatcher
    blocked,         \* reader -> the envelope its suspended send holds, or <<>>
    produced,        \* reader -> messages it has decoded and sent so far
    received,        \* envelopes the Dispatcher has taken from the channel
    calls,           \* Listener invocations, in order
    last_results,    \* what each Listener returned for the last envelope
    registry,        \* Timeout: the pending entries [key, deadline, id]
    now,             \* the clock the deadlines are compared with
    lock,            \* holder of the Mutex around the Timeout registry
    snapshot,        \* expired entries the running sweep has yet to fire
    arms,            \* every Arm so far, in order; an entry's id is its index
    disarmed,        \* ids removed by Disarm while pending
    replaced,        \* ids removed by a later Arm of the same key while pending
    fired,           \* ids whose expiry action ran, in order
    startup_peers,   \* the peers argument run was called with
    nonce,           \* p2pconfig.nonce, drawn in Constructor::new
    handshakes,      \* peer id -> the nonce and validity its handshake brought
    fatal,           \* tasks that panicked
    spawn_err,       \* tasks for which a spawn on the pool returned Err
    new_pc,          \* where Constructor::new stands
    listen,          \* the listen argument of Constructor::new
    binds,           \* P2PControl::Bind commands sent, in order
    server           \* p2pconfig.server

netvars == <<phase, keep_connected, polled, ticks, table, closed, prompt,
             startup_peers>>
msgvars == <<listeners, chan, blocked, produced, received, calls,
             last_results>>
tovars == <<registry, now, lock, snapshot, arms, disarmed, replaced, fired>>
hsvars == <<nonce, handshakes>>
spawnvars == <<fatal, spawn_err>>
ctorvars == <<new_pc, listen, binds, server>>
extvars == <<tovars, hsvars, spawnvars, ctorvars>>
vars == <<netvars, msgvars, extvars>>

\* ------------------------------------------------------- input enumeration
RECURSIVE SetToVec(_)
SetToVec(S) ==
    IF S = {} THEN <<>>
    ELSE LET m == CHOOSE x \in S : \A y \in S : x <= y
         IN <<m>> \o SetToVec(S \ {m})

\* dns_seed(network): the addresses the seeders returned, as a Vec
DnsSeeds == {SetToVec(S) : S \in SUBSET Addr}

\* the peers argument of run: a Vec of addresses (might be empty)
PeerLists == UNION {[1..n -> Addr] : n \in 0..MaxStartup}

Range(s) == {s[i] : i \in DOMAIN s}

\* ------------------------------------------------------------ P2P sessions
Session(addr, by, state) == [addr |-> addr, by |-> by, state |-> state]

n_sessions == Cardinality(DOMAIN table) + Cardinality(DOMAIN closed)

\* P2P::n_connected_peers: the live connected-peer count
n_connected_peers(t) == Cardinality({p \in DOMAIN t : t[p].state = "Ready"})

\* P2P::add_peer(PeerSource::Outgoing(addr)): a new session starts connecting
add_peer(t, pid, addr, by) ==
    [p \in DOMAIN t \cup {pid} |->
        IF p = pid THEN Session(addr, by, "Connecting") ELSE t[p]]

RECURSIVE add_peers(_, _, _, _)
add_peers(t, pid, addrs, by) ==
    IF addrs = <<>> THEN t
    ELSE add_peers(add_peer(t, pid, Head(addrs), by), pid + 1, Tail(addrs), by)

\* ---------------------------------------------------------- KeepConnected
KeepConnected(min, d, e) == [min_connections |-> min, dns |-> d, earlier |-> e]

\* dns.iter().cloned().filter(|a| !self.earlier.contains(a)).collect()
Eligible(self) == SelectSeq(self.dns, LAMBDA a : a \notin self.earlier)

\* eligible[(rng.next_u32() as usize) % eligible.len()]
Choice(eligible, r) == eligible[(r % Len(eligible)) + 1]

\* n_connected_peers() <= min_connections instead of <
UnderOrAtTarget(n, self) == n <= self.min_connections

\* n_connected_peers() > min_connections instead of <
OverTarget(n, self) == n > self.min_connections

\* the comparison that opens poll
UnderTarget(n, self) == n < self.min_connections

\* one add_peer per poll replaced by two
DialedTwice(choice) == <<choice, choice>>

\* what one poll hands to cex.spawn: the add_peer futures, in order
Dialed(choice) == <<choice>>

\* KeepConnected::poll on self with the count n it reads and the random r:
\* the value of self when poll returns, and the addresses it dialed
poll(self, n, r) ==
    IF UnderTarget(n, self)
    THEN LET eligible == Eligible(self) IN
         IF Len(eligible) > 0
         THEN LET choice == Choice(eligible, r) IN
              [self |-> [self EXCEPT !.earlier = @ \cup {choice}],
               add  |-> Dialed(choice)]
         ELSE [self |-> self, add |-> <<>>]
    ELSE [self |-> self, add |-> <<>>]

\* earlier starting with the startup peers in it
InitialEarlierWithPeers(peers) == {peers[i] : i \in DOMAIN peers}

\* earlier: HashSet::new()
InitialEarlier(peers) == {}

\* a node that always declares itself a server
ServerAlways(l) == TRUE

\* server: !listen.is_empty()
ServerFlag(l) == l # <<>>

\* a spawn result dropped without a look at it
ExpectIgnored(result) == "continues"

\* Result::expect on what ThreadPool::spawn returned: a panic on Err
Expect(result) == IF result = "Err" THEN "panics" ELSE "continues"

\* the closure's keep_connected after one tick, had the future it returned
\* been the value itself
OwnedAfterTickInPlace(kc, fut) == fut

\* Interval::for_each(move |_| keep_connected.clone()): every tick polls a
\* fresh clone; the value the closure owns is never written
OwnedAfterTick(kc, fut) == kc

\* ------------------------------------------------- channel and Dispatcher
\* the peer sessions whose readers feed the channel
Readers == {1, 2}

\* Ping registered first, HeaderDownload second
RegisteredSwapped == <<"Ping", "HeaderDownload">>

\* only HeaderDownload registered
RegisteredHeaderDownloadOnly == <<"HeaderDownload">>

\* dispatcher.add_listener(HeaderDownload::new(..)); add_listener(Ping::new(..))
RegisteredListeners == <<"HeaderDownload", "Ping">>

\* a channel one slot larger than BACK_PRESSURE
ChannelBoundOffByOne == BACK_PRESSURE + 1

\* mpsc::sync_channel(BACK_PRESSURE): the buffer holds up to BACK_PRESSURE
ChannelBound == BACK_PRESSURE

\* Dispatcher: every Listener, in registration order, is called with the
\* envelope; a failure is reported and the loop goes on
RECURSIVE Deliver(_, _, _)
Deliver(ls, env, results) ==
    IF ls = <<>> THEN <<>>
    ELSE <<[listener |-> Head(ls), env |-> env]>>
            \o Deliver(Tail(ls), env, Tail(results))

Results == {"ok", "err"}

NoMessages ==
    /\ listeners = RegisteredListeners
    /\ chan = <<>>
    /\ blocked = [p \in Readers |-> <<>>]
    /\ produced = [p \in Readers |-> 0]
    /\ received = <<>>
    /\ calls = <<>>
    /\ last_results = <<>>

\* ------------------------------------------------------ Peer sessions
\* values the 64-bit nonce of a handshake can take
Nonces == {1, 2}

\* no handshake nonce taken for the node's own
NeverSelfConnection(theirs, own) == FALSE

\* the received nonce equals the node's own: a self-connection
IsSelfConnection(theirs, own) == theirs = own

\* the session a handshake leaves: Ready once the fields are validated, torn
\* down on a self-connection or on a protocol version mismatch
Validated(h, own) == h.ok /\ ~IsSelfConnection(h.nonce, own)

\* messages forwarded from the moment the transport is connected
ForwardsOnceConnected(state) == state \in {"Handshaking", "Ready"}

\* messages are forwarded to the dispatch channel only once Ready
Forwards(state) == state = "Ready"

\* Disconnect recording the teardown and leaving the table entry in place
DisconnectKeepEntry(t, cl, p) ==
    IF p \in DOMAIN t
    THEN [table |-> t,
          closed |-> [q \in DOMAIN cl \cup {p} |->
                        IF q = p THEN t[p] ELSE cl[q]]]
    ELSE [table |-> t, closed |-> cl]

\* Disconnect(peer id): the session is torn down and its table entry removed;
\* nothing to do for an id that is gone
Disconnect(t, cl, p) ==
    IF p \in DOMAIN t
    THEN [table |-> [q \in DOMAIN t \ {p} |-> t[q]],
          closed |-> [q \in DOMAIN cl \cup {p} |->
                        IF q = p THEN t[p] ELSE cl[q]]]
    ELSE [table |-> t, closed |-> cl]

\* ------------------------------------------------------ Timeout registry
\* (peer id, request kind)
Keys == {1} \X {"headers", "ping"}

\* the registry taken without waiting for the Mutex
AcquireUnguarded(l) == TRUE

\* Arc::new(Mutex::new(Timeout::new(..))): lock() succeeds when no one holds it
Acquire(l) == l = "free"

\* Arm that leaves the prior entry of the key in place
ArmEntriesKeepPrior(reg, k, e) == reg \cup {e}

\* Arm(peer id, request kind, duration): the new entry replaces any prior one
ArmEntries(reg, k, e) == {x \in reg : x.key # k} \cup {e}

\* the entries a sweep finds overdue
Expired(reg, t) == {e \in reg : e.deadline <= t}

NoTimeouts ==
    /\ registry = {}
    /\ now = 0
    /\ lock = "free"
    /\ snapshot = {}
    /\ arms = <<>>
    /\ disarmed = {}
    /\ replaced = {}
    /\ fired = <<>>

\* everything else as Constructor::new leaves it when called with no listen
\* address; one value stands for the nonce drawn
Quiet ==
    /\ NoTimeouts
    /\ nonce = 1
    /\ handshakes = <<>>
    /\ fatal = {}
    /\ spawn_err = {}
    /\ new_pc = "done"
    /\ listen = <<>>
    /\ binds = <<>>
    /\ server = FALSE

\* ------------------------------------------------------------------- state
NoKeepConnected == KeepConnected(0, <<>>, {})

Init ==
    /\ NoMessages
    /\ Quiet
    /\ phase = "constructed"
    /\ keep_connected = NoKeepConnected
    /\ polled = [self |-> NoKeepConnected, add |-> <<>>]
    /\ ticks = 0
    /\ table = <<>>
    /\ closed = <<>>
    /\ prompt = TRUE
    /\ startup_peers = <<>>

\* Constructor::run up to the spawn of the Interval loop
Run ==
    /\ phase = "constructed"
    /\ \E peers \in PeerLists, min \in 0..MaxMin, d \in DnsSeeds :
        /\ table' = add_peers(table, n_sessions + 1, peers, "startup")
        /\ keep_connected' = KeepConnected(min, d, InitialEarlier(peers))
        /\ startup_peers' = peers
    /\ phase' = "running"
    /\ UNCHANGED <<polled, ticks, closed, prompt>>
    /\ UNCHANGED msgvars
    /\ UNCHANGED extvars

Pending == {p \in DOMAIN table : table[p].state # "Ready"}

\* one Interval tick: the closure clones keep_connected, for_each polls the
\* clone to Ready, the dial is spawned on the pool, the clone is dropped
Tick ==
    /\ phase = "running"
    /\ ticks < MaxTicks
    /\ n_sessions < MaxPeers
    /\ \E r \in Rnd :
        LET res == poll(keep_connected, n_connected_peers(table), r) IN
        /\ polled' = res
        /\ keep_connected' = OwnedAfterTick(keep_connected, res.self)
        /\ table' = add_peers(table, n_sessions + 1, res.add, "maintainer")
    /\ ticks' = ticks + 1
    /\ prompt' = (prompt /\ Pending = {} /\ DOMAIN closed = {})
    /\ UNCHANGED <<phase, closed, startup_peers>>
    /\ UNCHANGED msgvars
    /\ UNCHANGED extvars

\* session state machine: Connecting -> Handshaking -> Ready -> Disconnected
Connected(p) ==
    /\ p \in DOMAIN table
    /\ table[p].state = "Connecting"
    /\ table' = [table EXCEPT ![p].state = "Handshaking"]
    /\ UNCHANGED <<phase, keep_connected, polled, ticks, closed, prompt, startup_peers>>
    /\ UNCHANGED msgvars
    /\ UNCHANGED extvars

HandshakeDone(p) ==
    /\ p \in DOMAIN table
    /\ table[p].state = "Handshaking"
    /\ table' = [table EXCEPT ![p].state = "Ready"]
    /\ UNCHANGED <<phase, keep_connected, polled, ticks, closed, prompt, startup_peers>>
    /\ UNCHANGED msgvars
    /\ UNCHANGED extvars

\* transport error or protocol violation at any state: Disconnected, the
\* table entry is removed
SessionError(p) ==
    /\ p \in DOMAIN table
    /\ table' = [q \in DOMAIN table \ {p} |-> table[q]]
    /\ closed' = [q \in DOMAIN closed \cup {p} |->
                    IF q = p THEN table[p] ELSE closed[q]]
    /\ UNCHANGED <<phase, keep_connected, polled, ticks, prompt, startup_peers>>
    /\ UNCHANGED msgvars
    /\ UNCHANGED extvars

Pids == 1..(MaxPeers + MaxStartup)

Next ==
    \/ Run
    \/ Tick
    \/ \E p \in Pids : Connected(p)
    \/ \E p \in Pids : HandshakeDone(p)
    \/ \E p \in Pids : SessionError(p)

Spec == Init /\ [][Next]_vars

\* a KeepConnected future polled in place (Pin<&mut Self>) by an executor,
\* from any value of its fields and any connected-peer count
InitPoll ==
    /\ NoMessages
    /\ Quiet
    /\ phase = "running"
    /\ \E min \in 0..MaxMin, d \in DnsSeeds, e \in SUBSET Addr :
        keep_connected = KeepConnected(min, d, e)
    /\ polled = [self |-> NoKeepConnected, add |-> <<>>]
    /\ ticks = 0
    /\ \E n \in 0..1 : table = [p \in 1..n |-> Session(1, "startup", "Ready")]
    /\ closed = <<>>
    /\ prompt = TRUE
    /\ startup_peers = <<>>

PollInPlace ==
    /\ ticks < MaxTicks
    /\ n_sessions < MaxPeers
    /\ \E r \in Rnd :
        LET res == poll(keep_connected, n_connected_peers(table), r) IN
        /\ polled' = res
        /\ keep_connected' = res.self
        /\ table' = add_peers(table, n_sessions + 1, res.add, "maintainer")
    /\ ticks' = ticks + 1
    /\ UNCHANGED <<phase, closed, prompt, startup_peers>>
    /\ UNCHANGED msgvars
    /\ UNCHANGED extvars

NextPoll ==
    \/ PollInPlace
    \/ \E p \in Pids : Connected(p)
    \/ \E p \in Pids : HandshakeDone(p)
    \/ \E p \in Pids : SessionError(p)

SpecPoll == InitPoll /\ [][NextPoll]_vars

\* every dial succeeds, no peer disconnects, the Interval keeps firing
NextLive ==
    \/ Run
    \/ Tick
    \/ \E p \in Pids : Connected(p)
    \/ \E p \in Pids : HandshakeDone(p)

SpecLive ==
    /\ Init /\ [][NextLive]_vars
    /\ WF_vars(Run)
    /\ WF_vars(Tick)
    /\ \A p \in Pids : WF_vars(Connected(p)) /\ WF_vars(HandshakeDone(p))

\* ---------------------------------------------------------------- observers
ByMaintainer(t) == {p \in DOMAIN t : t[p].by = "maintainer"}

\* AddPeer dials the maintainer has initiated so far
Dials == Cardinality(ByMaintainer(table)) + Cardinality(ByMaintainer(closed))

\* addresses the maintainer selected (and inserted into earlier) at some tick
Tried ==
    {table[p].addr : p \in ByMaintainer(table)}
        \cup {closed[p].addr : p \in ByMaintainer(closed)}

\* addresses of maintainer dials that failed before reaching Ready
FailedDials ==
    {closed[p].addr : p \in {q \in ByMaintainer(closed) : closed[q].state # "Ready"}}

IsTick == ticks' = ticks + 1

EligibleSet(self) == {a \in Range(self.dns) : a \notin self.earlier}

\* ------------------------------------------------------------------ claims

\* C1: every tick initiates at most one AddPeer dial, however large the
\* deficit; dials are initiated by ticks only, so after n ticks at most n
\* dials have been initiated.
C1_AtMostOneDialPerTick ==
    /\ [](Dials <= ticks)
    /\ [][/\ Dials' <= Dials + 1
          /\ (Dials' # Dials => IsTick)]_vars

\* C1 witness: two ticks each dialed once while the deficit was two.
C1_Witness ==
    /\ ticks = 2 /\ Dials = 2
    /\ keep_connected.min_connections = 2
    /\ n_connected_peers(table) = 0

\* C2: a tick never selects an address that an earlier tick selected and
\* marked tried, as long as some discovered address is still untried.
C2_NoReselection ==
    [][(IsTick /\ polled'.add # <<>>
          /\ ~(Range(keep_connected.dns) \subseteq Tried))
        => polled'.add[1] \notin Tried]_vars

\* C3: from zero peers, with min_connections = k, at least k discovered
\* addresses and every dial Ready before the next tick, after k ticks the
\* connected-peer count is k and exactly k distinct addresses are tried.
C3_ScenarioKTicks ==
    (/\ phase = "running" /\ prompt
     /\ keep_connected.min_connections >= 1
     /\ ticks = keep_connected.min_connections
     /\ Len(keep_connected.dns) >= keep_connected.min_connections
     /\ DOMAIN table = ByMaintainer(table)
     /\ Pending = {} /\ DOMAIN closed = {})
    => /\ n_connected_peers(table) = keep_connected.min_connections
       /\ Cardinality(Tried) = keep_connected.min_connections

C5_ReachesTarget ==
    /\ (/\ phase = "running"
        /\ n_connected_peers(table) < keep_connected.min_connections
        /\ Len(keep_connected.dns) >=
              keep_connected.min_connections - n_connected_peers(table))
       ~> (n_connected_peers(table) >= keep_connected.min_connections)
    /\ [][(/\ phase = "running"
           /\ n_connected_peers(table) >= keep_connected.min_connections)
          => Dials' = Dials]_vars

\* C5 witness: the count climbed from zero to a target of two by two dials.
C5_Witness ==
    /\ phase = "running"
    /\ keep_connected.min_connections = 2
    /\ n_connected_peers(table) = 2
    /\ Dials = 2

\* C6: a failed maintainer dial leaves the loop running, and a later tick
\* that dials while an untried address is available dials an address other
\* than the one that failed.
C6_FailedDialNotRetried ==
    [][(IsTick /\ polled'.add # <<>>
          /\ ~(Range(keep_connected.dns) \subseteq Tried))
        => polled'.add[1] \notin FailedDials]_vars

C8_NoConcurrentSessionsToOneAddress ==
    \A p, q \in DOMAIN table :
        p # q => table[p].addr # table[q].addr

\* the stack running with the sessions of Readers in Ready
InitDispatch ==
    /\ NoMessages
    /\ Quiet
    /\ phase = "running"
    /\ keep_connected = NoKeepConnected
    /\ polled = [self |-> NoKeepConnected, add |-> <<>>]
    /\ ticks = 0
    /\ table = [p \in Readers |-> Session(p, "startup", "Ready")]
    /\ closed = <<>>
    /\ prompt = TRUE
    /\ startup_peers = <<>>

Sent == produced[1] + produced[2]

\* a Ready session's reader decodes its next message and sends the envelope:
\* the send returns at once if the buffer has room, else it suspends
Read(p) ==
    /\ p \in DOMAIN table /\ Forwards(table[p].state)
    /\ blocked[p] = <<>>
    /\ Sent < MaxSent
    /\ produced' = [produced EXCEPT ![p] = @ + 1]
    /\ LET env == <<p, produced[p] + 1>> IN
        IF Len(chan) < ChannelBound
        THEN /\ chan' = Append(chan, env)
             /\ UNCHANGED blocked
        ELSE /\ blocked' = [blocked EXCEPT ![p] = env]
             /\ UNCHANGED chan
    /\ UNCHANGED <<listeners, received, calls, last_results>>
    /\ UNCHANGED netvars
    /\ UNCHANGED extvars

\* a suspended send completes once the buffer has room
Unblock(p) ==
    /\ blocked[p] # <<>>
    /\ Len(chan) < ChannelBound
    /\ chan' = Append(chan, blocked[p])
    /\ blocked' = [blocked EXCEPT ![p] = <<>>]
    /\ UNCHANGED <<listeners, produced, received, calls, last_results>>
    /\ UNCHANGED netvars
    /\ UNCHANGED extvars

\* one round of the Dispatcher's loop: receive an envelope, call the Listeners
Dispatch ==
    /\ chan # <<>>
    /\ chan' = Tail(chan)
    /\ received' = Append(received, Head(chan))
    /\ \E results \in [1..Len(listeners) -> Results] :
        /\ calls' = calls \o Deliver(listeners, Head(chan), results)
        /\ last_results' = results
    /\ UNCHANGED <<listeners, blocked, produced>>
    /\ UNCHANGED netvars
    /\ UNCHANGED extvars

NextDispatch ==
    \/ \E p \in Readers : Read(p)
    \/ \E p \in Readers : Unblock(p)
    \/ Dispatch

SpecDispatch ==
    /\ InitDispatch /\ [][NextDispatch]_vars
    /\ WF_vars(Dispatch)
    /\ \A p \in Readers : WF_vars(Unblock(p))

AllBlocked == {blocked[p] : p \in {q \in Readers : blocked[q] # <<>>}}

\* C9: the channel never holds more than BACK_PRESSURE envelopes; every
\* envelope produced is, exactly once, received, in the channel or held by a
\* suspended send (none is dropped); a send suspends only on a full channel
\* and a suspended send eventually completes.
C9_BoundedChannelBackpressure ==
    /\ [](/\ Len(chan) <= BACK_PRESSURE
          /\ Range(received) \cup Range(chan) \cup AllBlocked
                = {e \in Readers \X (1..MaxSent) : e[2] <= produced[e[1]]}
          /\ Len(received) + Len(chan) + Cardinality(AllBlocked) = Sent)
    /\ [][\A p \in Readers :
            /\ (blocked[p] = <<>> /\ blocked'[p] # <<>>)
                => (Len(chan) = BACK_PRESSURE /\ chan' = chan)
            /\ (blocked[p] # <<>> /\ blocked'[p] = <<>>)
                => chan' = Append(chan, blocked[p])]_vars
    /\ \A p \in Readers : (blocked[p] # <<>>) ~> (blocked[p] = <<>>)

\* C9 witness: with nothing received yet, the channel holds BACK_PRESSURE
\* envelopes and the eleventh send is suspended.
C9_Witness ==
    /\ received = <<>>
    /\ Len(chan) = BACK_PRESSURE
    /\ Sent = BACK_PRESSURE + 1
    /\ AllBlocked # {}

\* C10: for every envelope the Dispatcher received, HeaderDownload and then
\* Ping were each called once with it, in the order of receipt, whatever the
\* Listeners returned.
C10_EveryListenerOncePerEnvelope ==
    /\ Len(calls) = 2 * Len(received)
    /\ \A i \in 1..Len(received) :
        /\ calls[2 * i - 1] = [listener |-> "HeaderDownload", env |-> received[i]]
        /\ calls[2 * i] = [listener |-> "Ping", env |-> received[i]]

\* C10 witness: HeaderDownload failed on the last of several envelopes and
\* Ping was still called with it.
C10_Witness ==
    /\ Len(received) >= 2
    /\ last_results # <<>> /\ last_results[1] = "err"
    /\ calls[Len(calls)] = [listener |-> "Ping", env |-> received[Len(received)]]

\* the envelopes a Listener was called with, in order
SeenBy(l) ==
    LET cs == SelectSeq(calls, LAMBDA c : c.listener = l)
    IN [i \in DOMAIN cs |-> cs[i].env]

\* the envelopes of one peer session in a sequence of envelopes
FromPeer(s, p) == SelectSeq(s, LAMBDA e : e[1] = p)

\* C11: envelopes enter the channel at its tail and leave it at its head
\* for the Listeners, nothing else changes it; so each Listener has seen
\* exactly the envelopes received, in that order, and for every session
\* the envelopes received and queued are its messages 1, 2, .. in the
\* order its reader decoded them.
C11_DeliveryOrderIsArrivalOrder ==
    /\ [](/\ \A l \in {"HeaderDownload", "Ping"} : SeenBy(l) = received
          /\ \A p \in Readers :
                LET mine == FromPeer(received \o chan, p) IN
                /\ \A i \in DOMAIN mine : mine[i] = <<p, i>>
                /\ Len(mine) = produced[p] - (IF blocked[p] = <<>> THEN 0 ELSE 1))
    /\ [][\/ received' \o chan' = received \o chan
          \/ /\ received' = received
             /\ \E e \in Readers \X (1..MaxSent) : chan' = Append(chan, e)]_vars

\* C11 witness: both sessions' messages are interleaved on the channel and
\* some of each have been delivered to both Listeners.
C11_Witness ==
    /\ Len(FromPeer(received, 1)) >= 2
    /\ Len(FromPeer(received, 2)) >= 2
    /\ received[1][1] # received[2][1]
    /\ Len(chan) >= 2
    /\ SeenBy("Ping") = received

\* ------------------------------------------------------- Timeout registry
Ids(es) == {e.id : e \in es}

Arm(k, d) ==
    /\ Acquire(lock)
    /\ Len(arms) < MaxArms
    /\ LET e == [key |-> k, deadline |-> now + d, id |-> Len(arms) + 1] IN
        /\ registry' = ArmEntries(registry, k, e)
        /\ arms' = Append(arms, e)
        /\ replaced' = replaced \cup Ids({x \in registry : x.key = k})
    /\ UNCHANGED <<now, lock, snapshot, disarmed, fired>>
    /\ UNCHANGED <<netvars, msgvars, hsvars, spawnvars, ctorvars>>

\* Disarm(peer id, request kind): called on the matching response
Disarm(k) ==
    /\ Acquire(lock)
    /\ \E x \in registry : x.key = k
    /\ registry' = {x \in registry : x.key # k}
    /\ disarmed' = disarmed \cup Ids({x \in registry : x.key = k})
    /\ UNCHANGED <<now, lock, snapshot, arms, replaced, fired>>
    /\ UNCHANGED <<netvars, msgvars, hsvars, spawnvars, ctorvars>>

Advance ==
    /\ now < MaxTime
    /\ now' = now + 1
    /\ UNCHANGED <<registry, lock, snapshot, arms, disarmed, replaced, fired>>
    /\ UNCHANGED <<netvars, msgvars, hsvars, spawnvars, ctorvars>>

\* the periodic sweep takes the Mutex and scans all entries
SweepBegin ==
    /\ Acquire(lock)
    /\ lock' = "sweep"
    /\ snapshot' = Expired(registry, now)
    /\ UNCHANGED <<registry, now, arms, disarmed, replaced, fired>>
    /\ UNCHANGED <<netvars, msgvars, hsvars, spawnvars, ctorvars>>

\* an overdue entry triggers its expiry action and is removed at once
SweepFire(e) ==
    /\ lock = "sweep"
    /\ e \in snapshot
    /\ fired' = Append(fired, e.id)
    /\ registry' = registry \ {e}
    /\ snapshot' = snapshot \ {e}
    /\ UNCHANGED <<now, lock, arms, disarmed, replaced>>
    /\ UNCHANGED <<netvars, msgvars, hsvars, spawnvars, ctorvars>>

SweepEnd ==
    /\ lock = "sweep"
    /\ snapshot = {}
    /\ lock' = "free"
    /\ UNCHANGED <<registry, now, snapshot, arms, disarmed, replaced, fired>>
    /\ UNCHANGED <<netvars, msgvars, hsvars, spawnvars, ctorvars>>

Entries == [key : Keys, deadline : 0..(MaxTime + MaxDur), id : 1..MaxArms]

NextTimeout ==
    \/ \E k \in Keys, d \in 1..MaxDur : Arm(k, d)
    \/ \E k \in Keys : Disarm(k)
    \/ Advance
    \/ SweepBegin
    \/ \E e \in Entries : SweepFire(e)
    \/ SweepEnd

\* the registry is armed by the Listeners of the running stack
SpecTimeout == InitDispatch /\ [][NextTimeout]_vars

\* C12: no entry's expiry action runs more than once; a fired entry is gone
\* from the registry, fired only after its deadline, and an entry disarmed
\* while pending never fires.
C12_ExpiryFiresAtMostOnce ==
    /\ \A i, j \in DOMAIN fired : fired[i] = fired[j] => i = j
    /\ \A i \in DOMAIN fired :
        /\ fired[i] \notin Ids(registry)
        /\ fired[i] \notin disarmed
        /\ arms[fired[i]].deadline <= now

\* C12 witness: one entry has fired, another was disarmed after its deadline
\* had passed, and a sweep has run since.
C12_Witness ==
    /\ Len(fired) >= 1
    /\ \E i \in disarmed : arms[i].deadline <= now
    /\ lock = "free" /\ Expired(registry, now) = {}
    /\ Len(arms) = 3

\* C13: the registry never holds two entries for one (peer id, request
\* kind), and an entry replaced by a later Arm of its key never fires.
C13_OneEntryPerKey ==
    /\ \A x, y \in registry : x.key = y.key => x = y
    /\ \A i \in DOMAIN fired : fired[i] \notin replaced

\* C13 witness: a key was armed again before its first deadline passed, the
\* first deadline has passed since, and the later entry is the one pending.
C13_Witness ==
    \E i \in replaced : \E x \in registry :
        /\ x.key = arms[i].key /\ x.id > i
        /\ arms[i].deadline <= now
        /\ x.deadline > now
        /\ lock = "free"

\* ------------------------------------------------- Session state machine
\* the stack running with no session yet and the nonce Constructor::new drew
InitSession ==
    /\ NoMessages
    /\ NoTimeouts
    /\ nonce \in Nonces
    /\ handshakes = <<>>
    /\ fatal = {}
    /\ spawn_err = {}
    /\ new_pc = "done"
    /\ listen = <<>>
    /\ binds = <<>>
    /\ server = FALSE
    /\ phase = "running"
    /\ keep_connected = NoKeepConnected
    /\ polled = [self |-> NoKeepConnected, add |-> <<>>]
    /\ ticks = 0
    /\ table = <<>>
    /\ closed = <<>>
    /\ prompt = TRUE
    /\ startup_peers = <<>>

\* AddPeer: a session is created in Connecting under a fresh peer id
AddPeer(a) ==
    /\ n_sessions < MaxSessions
    /\ table' = add_peer(table, n_sessions + 1, a, "command")
    /\ UNCHANGED <<phase, keep_connected, polled, ticks, closed, prompt,
                   startup_peers>>
    /\ UNCHANGED msgvars
    /\ UNCHANGED extvars

\* the remote handshake arrives with nonce n; ok says whether its fields pass
\* the protocol version validation
Handshake(p, n, ok) ==
    /\ p \in DOMAIN table
    /\ table[p].state = "Handshaking"
    /\ LET h == [nonce |-> n, ok |-> ok] IN
        /\ handshakes' = [q \in DOMAIN handshakes \cup {p} |->
                            IF q = p THEN h ELSE handshakes[q]]
        /\ IF Validated(h, nonce)
           THEN /\ table' = [table EXCEPT ![p].state = "Ready"]
                /\ UNCHANGED closed
           ELSE /\ table' = Disconnect(table, closed, p).table
                /\ closed' = Disconnect(table, closed, p).closed
    /\ UNCHANGED <<phase, keep_connected, polled, ticks, prompt,
                   startup_peers>>
    /\ UNCHANGED nonce
    /\ UNCHANGED msgvars
    /\ UNCHANGED <<tovars, spawnvars, ctorvars>>

\* the Disconnect(peer id) command, for any id
DisconnectPeer(p) ==
    /\ table' = Disconnect(table, closed, p).table
    /\ closed' = Disconnect(table, closed, p).closed
    /\ UNCHANGED <<phase, keep_connected, polled, ticks, prompt,
                   startup_peers>>
    /\ UNCHANGED msgvars
    /\ UNCHANGED extvars

SessionIds == 1..MaxSessions

NextSession ==
    \/ \E a \in Addr : AddPeer(a)
    \/ \E p \in SessionIds : Connected(p)
    \/ \E p \in SessionIds, n \in Nonces, ok \in BOOLEAN : Handshake(p, n, ok)
    \/ \E p \in SessionIds : SessionError(p)
    \/ \E p \in SessionIds : DisconnectPeer(p)
    \/ \E p \in Readers : Sent < MaxRead /\ Read(p)
    \/ Dispatch

SpecSession == InitSession /\ [][NextSession]_vars

\* sessions whose handshake brought the node's own nonce
SelfConnections ==
    {p \in DOMAIN handshakes : handshakes[p].nonce = nonce}

\* peer ids with an envelope in the channel or already dispatched
Forwarded == {e[1] : e \in Range(chan) \cup Range(received)}

\* C14: a session whose handshake brought the node's own nonce (drawn once
\* at construction, never redrawn) is torn down out of Handshaking: it has
\* no table entry, it was never Ready, connected_peer_count does not count
\* it and nothing of it was forwarded
C14_SelfConnectionTornDown ==
    /\ [](\A p \in SelfConnections :
            /\ p \notin DOMAIN table
            /\ p \in DOMAIN closed /\ closed[p].state = "Handshaking"
            /\ p \notin Forwarded)
    /\ [](n_connected_peers(table) =
            Cardinality({p \in DOMAIN table :
                /\ table[p].state = "Ready"
                /\ p \notin SelfConnections}))
    /\ [][nonce' = nonce]_vars

\* a self-connection was torn down while another session is Ready and counted
C14_Witness ==
    /\ \E p \in SelfConnections : handshakes[p].ok
    /\ n_connected_peers(table) = 1
    /\ \E p \in DOMAIN table : p \in DOMAIN handshakes

\* the moves the session state machine allows
SessionMoves ==
    {<<"Connecting", "Handshaking">>, <<"Handshaking", "Ready">>}

C16_DisconnectIdempotent ==
    /\ [](\A p \in SessionIds :
            LET once == Disconnect(table, closed, p)
                twice == Disconnect(once.table, once.closed, p) IN
            /\ p \notin DOMAIN once.table
            /\ twice = once
            /\ p \notin DOMAIN table =>
                    once = [table |-> table, closed |-> closed])
    /\ [](DOMAIN table \cap DOMAIN closed = {})
    /\ [][\A p \in DOMAIN table' \ DOMAIN table :
            p \notin DOMAIN table /\ p \notin DOMAIN closed]_vars
    /\ [][\A p \in DOMAIN table \cap DOMAIN table' :
            table'[p].addr = table[p].addr]_vars

\* a Ready session was disconnected while another session is still live
C16_Witness ==
    /\ \E p \in DOMAIN closed : closed[p].state = "Ready"
    /\ \E p \in DOMAIN table : table[p].state = "Ready"
    /\ Cardinality(DOMAIN closed) + Cardinality(DOMAIN table) = MaxSessions

\* ------------------------------------------------- Spawns that can fail
\* s without its i-th element
Without(s, i) == SubSeq(s, 1, i - 1) \o SubSeq(s, i + 1, Len(s))

\* run, with the spawn numbered fail returning Err (0: none does): spawns 1
\* to Len(peers) are the startup dials, the next one is the Interval loop;
\* a panic unwinds run at the failing spawn
RunSpawn ==
    /\ phase = "constructed"
    /\ \E peers \in PeerLists, min \in 0..MaxMin, d \in DnsSeeds,
          fail \in 0..(MaxStartup + 1) :
        LET unwound == fail # 0 /\ Expect("Err") = "panics"
            spawned == IF fail = 0 THEN peers
                       ELSE IF unwound THEN SubSeq(peers, 1, fail - 1)
                       ELSE Without(peers, fail) IN
        /\ fail <= Len(peers) + 1
        /\ table' = add_peers(table, n_sessions + 1, spawned, "startup")
        /\ keep_connected' =
                IF unwound /\ fail <= Len(peers) THEN keep_connected
                ELSE KeepConnected(min, d, InitialEarlier(peers))
        /\ startup_peers' = peers
        /\ phase' = IF unwound THEN "panicked" ELSE "running"
        /\ fatal' = IF unwound THEN {"run"} ELSE {}
        /\ spawn_err' = IF fail = 0 THEN {}
                        ELSE IF fail <= Len(peers) THEN {"startup"}
                        ELSE {"loop"}
    /\ UNCHANGED <<polled, ticks, closed, prompt>>
    /\ UNCHANGED msgvars
    /\ UNCHANGED <<tovars, hsvars, ctorvars>>

\* one Interval tick, with the spawn of the dial returning result; a panic
\* ends the task of the loop
TickSpawn ==
    /\ phase = "running"
    /\ "loop" \notin spawn_err
    /\ "maintainer" \notin fatal
    /\ ticks < MaxTicks
    /\ n_sessions < MaxPeers
    /\ \E r \in Rnd, result \in {"Ok", "Err"} :
        LET res == poll(keep_connected, n_connected_peers(table), r) IN
        /\ res.add = <<>> => result = "Ok"
        /\ polled' = res
        /\ keep_connected' = OwnedAfterTick(keep_connected, res.self)
        /\ table' = IF result = "Ok"
                    THEN add_peers(table, n_sessions + 1, res.add, "maintainer")
                    ELSE table
        /\ spawn_err' = IF result = "Ok" THEN spawn_err
                        ELSE spawn_err \cup {"dial"}
        /\ fatal' = IF Expect(result) = "panics"
                    THEN fatal \cup {"maintainer"}
                    ELSE fatal
    /\ ticks' = ticks + 1
    /\ prompt' = (prompt /\ Pending = {} /\ DOMAIN closed = {})
    /\ UNCHANGED <<phase, closed, startup_peers>>
    /\ UNCHANGED msgvars
    /\ UNCHANGED <<tovars, hsvars, ctorvars>>

NextSpawn ==
    \/ RunSpawn
    \/ TickSpawn
    \/ \E p \in Pids : Connected(p)
    \/ \E p \in Pids : HandshakeDone(p)
    \/ \E p \in Pids : SessionError(p)

SpecSpawn == Init /\ [][NextSpawn]_vars

\* sessions the startup loop of run dialed
ByStartup(t) == {p \in DOMAIN t : t[p].by = "startup"}

\* C17: a spawn that returns Err is fatal to the task that called it: run
\* panics when a startup dial or the Interval loop cannot be spawned, the
\* loop's task panics when its dial cannot be spawned and ticks no more; a
\* task that carries on has had all its work scheduled
C17_SpawnFailureIsFatal ==
    /\ [](/\ spawn_err \cap {"startup", "loop"} # {} =>
                phase = "panicked" /\ "run" \in fatal
          /\ "dial" \in spawn_err => "maintainer" \in fatal
          /\ phase = "running" =>
                Cardinality(ByStartup(table)) + Cardinality(ByStartup(closed))
                    = Len(startup_peers))
    /\ [][IsTick => /\ fatal = {} /\ spawn_err = {}
                    /\ polled'.add # <<>> =>
                        \/ Dials' = Dials + 1
                        \/ "maintainer" \in fatal']_vars

\* the maintainer's dial could not be spawned after a tick that dialed, with
\* the startup peer's session in place
C17_Witness ==
    /\ "dial" \in spawn_err
    /\ ticks = 2
    /\ Dials = 1
    /\ Cardinality(ByStartup(table)) = 1

\* ------------------------------------------------- Startup peers
\* the session of peer id p, live or torn down
SessionOf(p) == IF p \in DOMAIN table THEN table[p] ELSE closed[p]

\* C18: once run has been called, the i-th address of peers has exactly one
\* startup session, the i-th session created, whatever min_connections is;
\* no session is the maintainer's before the first tick, no startup session
\* is created afterwards, and the maintainer starts with an empty earlier
C18_StartupPeersDialedOnce ==
    /\ [](phase = "running" =>
            /\ ByStartup(table) \cup ByStartup(closed) = DOMAIN startup_peers
            /\ \A i \in DOMAIN startup_peers :
                    SessionOf(i).addr = startup_peers[i]
            /\ ticks = 0 => Dials = 0 /\ keep_connected.earlier = {})
    /\ [][/\ phase = "running" =>
                ByStartup(table') \cup ByStartup(closed')
                    = ByStartup(table) \cup ByStartup(closed)
          /\ (phase = "constructed" /\ phase' = "running") =>
                /\ keep_connected'.earlier = {}
                /\ Cardinality(DOMAIN table') = Len(startup_peers')]_vars

\* a startup peer that is also a discovered address was dialed with a
\* target of zero, and no tick has come yet
C18_Witness ==
    /\ phase = "running"
    /\ ticks = 0
    /\ Len(startup_peers) = MaxStartup
    /\ keep_connected.min_connections = 0
    /\ startup_peers[1] \in Range(keep_connected.dns)
    /\ DOMAIN closed = {}

\* ------------------------------------------------- Constructor::new
ListenLists == UNION {[1..n -> Addr] : n \in 0..MaxListen}

\* Constructor::new entered with its listen argument, nothing built yet
InitNew ==
    /\ listen \in ListenLists
    /\ new_pc = "start"
    /\ binds = <<>>
    /\ server = FALSE
    /\ nonce = 0
    /\ handshakes = <<>>
    /\ fatal = {}
    /\ spawn_err = {}
    /\ NoTimeouts
    /\ listeners = <<>>
    /\ chan = <<>>
    /\ blocked = [p \in Readers |-> <<>>]
    /\ produced = [p \in Readers |-> 0]
    /\ received = <<>>
    /\ calls = <<>>
    /\ last_results = <<>>
    /\ phase = "constructing"
    /\ keep_connected = NoKeepConnected
    /\ polled = [self |-> NoKeepConnected, add |-> <<>>]
    /\ ticks = 0
    /\ table = <<>>
    /\ closed = <<>>
    /\ prompt = TRUE
    /\ startup_peers = <<>>

\* p2pconfig is built: the nonce is drawn and server is set from listen
NewConfig ==
    /\ new_pc = "start"
    /\ nonce' \in Nonces
    /\ server' = ServerFlag(listen)
    /\ new_pc' = "listeners"
    /\ UNCHANGED <<handshakes, listen, binds>>
    /\ UNCHANGED <<netvars, msgvars, tovars, spawnvars>>

\* dispatcher.add_listener, HeaderDownload and then Ping
NewListener ==
    /\ new_pc = "listeners"
    /\ listeners' = Append(listeners, RegisteredListeners[Len(listeners) + 1])
    /\ new_pc' = IF Len(listeners') = Len(RegisteredListeners)
                 THEN "bind" ELSE "listeners"
    /\ UNCHANGED <<chan, blocked, produced, received, calls, last_results>>
    /\ UNCHANGED <<listen, binds, server>>
    /\ UNCHANGED <<netvars, tovars, hsvars, spawnvars>>

\* one turn of for addr in &listen: P2PControl::Bind(addr) is sent
Bind ==
    /\ new_pc = "bind"
    /\ Len(binds) < Len(listen)
    /\ binds' = Append(binds, listen[Len(binds) + 1])
    /\ UNCHANGED <<new_pc, listen, server>>
    /\ UNCHANGED <<netvars, msgvars, tovars, hsvars, spawnvars>>

\* Ok(Constructor { p2p, downstream })
NewDone ==
    /\ new_pc = "bind"
    /\ Len(binds) = Len(listen)
    /\ new_pc' = "done"
    /\ phase' = "constructed"
    /\ UNCHANGED <<keep_connected, polled, ticks, table, closed, prompt,
                   startup_peers>>
    /\ UNCHANGED <<listen, binds, server>>
    /\ UNCHANGED <<msgvars, tovars, hsvars, spawnvars>>

NextNew ==
    \/ NewConfig
    \/ NewListener
    \/ Bind
    \/ NewDone
    \/ Run
    \/ \E p \in Pids : Connected(p)
    \/ \E p \in Pids : HandshakeDone(p)

SpecNew == InitNew /\ [][NextNew]_vars

\* C19: HeaderDownload and then Ping are registered before the first Bind
\* is sent and before run creates a session, and the Listener sequence
\* stays as it is from then on; the Binds sent are the listen addresses in
\* order, one each when new returns, and server is true exactly when a Bind
\* was sent
C19_ListenersBeforeBindAndRun ==
    /\ [](/\ (binds # <<>> \/ phase = "running" \/ DOMAIN table # {}) =>
                listeners = <<"HeaderDownload", "Ping">>
          /\ Len(binds) <= Len(listen)
          /\ \A i \in DOMAIN binds : binds[i] = listen[i]
          /\ binds # <<>> => server
          /\ new_pc = "done" =>
                /\ Len(binds) = Len(listen)
                /\ server <=> Len(binds) >= 1)
    /\ [][/\ listeners' # listeners =>
                /\ binds = <<>> /\ phase = "constructing"
                /\ \E l \in {"HeaderDownload", "Ping"} :
                        listeners' = Append(listeners, l)
          /\ Len(listeners) = 2 => listeners' = listeners
          /\ new_pc = "done" => binds' = binds /\ server' = server]_vars

\* new returned after two Binds with server set, and run created a session
C19_Witness ==
    /\ new_pc = "done"
    /\ Len(binds) = 2
    /\ server
    /\ phase = "running"
    /\ \E p \in DOMAIN table : table[p].state = "Ready"

====
